---- MODULE Spec2Model ----
(***************************************************************************)
(* Model of the soft-melanin content engine.                               *)
(*                                                                         *)
(*   - ContentGenerator.generateArtifact (packages/engine/src/generator.ts)*)
(*     : the generate / validate / rewrite loop, under SpecGen.            *)
(*   - SchedulerService (apps/web/lib/social/scheduler.ts) together with   *)
(*     the /api/social/scheduled route handlers                            *)
(*     (apps/web/app/api/social/scheduled/route.ts), under SpecSched.      *)
(*                                                                         *)
(* Every await of the source is a step boundary: the code between two      *)
(* awaits runs atomically on the Node event loop and is one action here.   *)
(***************************************************************************)
EXTENDS Integers, Sequences, FiniteSets, TLC

VARIABLES
    \* ---- ContentGenerator.generateArtifact ----
    gpc,                 \* position: "idle", "test", "awaiting", "returned", "thrown"
    maxRewriteAttempts,  \* this.maxRewriteAttempts
    attempts,            \* let attempts
    lastErrors,          \* let lastErrors: string[]
    artifact,            \* let artifact: ContentArtifact | null
    validation,          \* let validation: FullValidationResult | null
    prompts,             \* the provider calls made so far (prompt inputs + temperature)
    attemptLog,          \* history: outcome and feedback of each finished attempt
    genResult,           \* the value returned, or the error thrown
    \* ---- ContentGenerator.generate ----
    bpc,                 \* position: "idle", "loop", "calling", "returned"
    request,             \* the GenerationRequest (segments and platforms)
    cursor,              \* (segment, platform) pairs the two loops have finished
    artifacts,           \* const artifacts: ContentArtifact[]
    errors,              \* const errors: string[]
    batchResponse,       \* the GenerationResponse returned
    calls,               \* history: the generateArtifact calls made and how each ended
    \* ---- SchedulerService and the scheduled-post store ----
    posts,               \* prisma.scheduledPost rows, by id
    history,             \* prisma.postHistory: number of rows per scheduledPostId
    isRunning,           \* SchedulerService.isRunning
    intervalId,          \* SchedulerService.intervalId (TRUE = it holds a timer's handle)
    timers,              \* setInterval timers that have not been cleared
    maxConcurrentPosts,  \* config.maxConcurrentPosts
    now,                 \* wall clock, in minutes
    tasks,               \* processPost invocations, by owner (cycle or executePostNow) and post id
    userOps,             \* PATCH and DELETE requests served so far
    dispatched,          \* history (SpecSched): processPost invocations begun so far
    fails,               \* history (SpecRetry): failed dispatches completed per post
    clean,               \* history (SpecRetry): no two dispatches of the post ever overlapped
    execResult,          \* history (SpecExec): the latest executePostNow call and what it returned
    lastResponse,        \* history (SpecStore): the latest request served and the response sent
    lastDelay,           \* history (SpecRetry): per post, the delay its latest re-queue asked for
    \* ---- the validators, called on their own ----
    vpc,                 \* position: "idle", "called", "done"
    vcall,               \* the validator called and its argument
    vresult              \* what the call returned, or that it threw

genVars == <<gpc, maxRewriteAttempts, attempts, lastErrors, artifact, validation,
             prompts, attemptLog, genResult>>
batchVars == <<bpc, request, cursor, artifacts, errors, batchResponse, calls>>
schedVars == <<posts, history, isRunning, intervalId, timers, maxConcurrentPosts, now, tasks,
               userOps, dispatched, fails, clean, execResult, lastResponse, lastDelay>>
vars == <<gpc, maxRewriteAttempts, attempts, lastErrors, artifact, validation,
          prompts, attemptLog, genResult,
          bpc, request, cursor, artifacts, errors, batchResponse, calls,
          posts, history, isRunning, intervalId, timers, maxConcurrentPosts, now, tasks,
          userOps, dispatched, fails, clean, execResult, lastResponse, lastDelay,
          vpc, vcall, vresult>>
validVars == <<vpc, vcall, vresult>>

\* null for record-valued variables
Null == [null |-> TRUE]

Range(f) == {f[i] : i \in DOMAIN f}

(***************************************************************************)
(* Bounds                                                                  *)
(***************************************************************************)
\* largest configured maxRewriteAttempts explored
MaxBudget == 2
\* largest configured maxRewriteAttempts explored for a batch
MaxBatchBudget == 1
\* longest request.segments and request.platforms explored
MaxSegments == 2
MaxPlatforms == 2
\* scheduled-post rows ever created
MaxPosts == 2
\* processScheduledPosts invocations in flight at once
MaxCycles == 2
\* processPost invocations in flight at once, over all cycles and executePostNow calls
MaxInFlight == 2
\* last instant of the wall clock explored (minutes)
MaxTime == 5
\* PATCH and DELETE requests served
MaxUserOps == 1
\* PATCH and DELETE requests served when only the route handlers run (SpecStore)
MaxStoreOps == 3
\* most words of a content handed to validateWordCount
MaxWords == 301
\* longest run of blanks between two words
MaxGap == 2
\* longest hashtag list handed to validateHashtags
MaxTags == 6
\* processPost invocations begun (SpecSched)
MaxDispatches == 3
\* post-history rows written per scheduled post
MaxHistory == 2
\* the failed-dispatch history counter saturates here
FailCap == 4

(***************************************************************************)
(* Validators                                                              *)
(***************************************************************************)

\* PLATFORM_CONFIGS: the word bounds of each platform
PLATFORM_CONFIGS ==
    [linkedin_founder |-> [name |-> "LinkedIn Founder Post", minWords |-> 150, maxWords |-> 300],
     linkedin_company |-> [name |-> "LinkedIn Company Post", minWords |-> 150, maxWords |-> 300],
     substack |-> [name |-> "Substack Article", minWords |-> 1000, maxWords |-> 1500]]

\* A content string, as its characters: "a" stands for any character \s does
\* not match.
Whitespace == {" ", "\n"}

Repeat(c, n) == [i \in 1..n |-> c]

\* the content with `words` one-letter words, `gap` blanks between two
\* words, `lead` blanks before the first and `trail` line breaks after the last
ContentOf(lead, words, gap, trail) ==
    Repeat(" ", lead)
      \o [i \in 1..(IF words = 0 THEN 0 ELSE words + (words - 1) * gap) |->
            IF (i - 1) % (gap + 1) = 0 THEN "a" ELSE " "]
      \o Repeat("\n", trail)

\* content.split(/\s+/): the lengths of the pieces between the maximal runs
\* of whitespace; a string that begins or ends with whitespace has an empty
\* first or last piece, and the empty string has one empty piece
\* (computed by halves: the pieces of s[lo..hi] are those of its two halves,
\* where the last piece of the left half and the first piece of the right
\* half are one piece, or lie inside one run of whitespace and are no piece)
RECURSIVE SplitRange(_, _, _)
SplitRange(s, lo, hi) ==
    IF lo = hi
      THEN IF s[lo] \in Whitespace THEN <<0, 0>> ELSE <<1>>
      ELSE LET mid == (lo + hi) \div 2
               left == SplitRange(s, lo, mid)
               right == SplitRange(s, mid + 1, hi)
           IN  IF s[mid] \in Whitespace /\ s[mid + 1] \in Whitespace
                 THEN SubSeq(left, 1, Len(left) - 1) \o Tail(right)
                 ELSE SubSeq(left, 1, Len(left) - 1)
                        \o <<left[Len(left)] + Head(right)>>
                        \o Tail(right)

split(s) == IF Len(s) = 0 THEN <<0>> ELSE SplitRange(s, 1, Len(s))

\* .filter(word => word.length > 0).length
wordCount(content) == Len(SelectSeq(split(content), LAMBDA n : n > 0))

\* validateWordCount: the two comparisons
BelowMinimumInclusive(count, config) == count <= config.minWords
BelowMinimum(count, config) == count < config.minWords
AboveMaximum(count, config) == count > config.maxWords

validateWordCount(content, platform) ==
    LET config == PLATFORM_CONFIGS[platform]
        count == wordCount(content)
        errs == (IF BelowMinimum(count, config)
                   THEN <<[rule |-> "is below minimum", count |-> count, limit |-> config.minWords]>>
                   ELSE <<>>)
                \o (IF AboveMaximum(count, config)
                      THEN <<[rule |-> "exceeds maximum", count |-> count, limit |-> config.maxWords]>>
                      ELSE <<>>)
    IN  [isValid |-> Len(errs) = 0, errors |-> errs]

\* A hashtag, as its first character and the rest of it.
PRIMARY_HASHTAGS ==
    {<<"#", "SoftMelanin">>, <<"#", "SoftnessIsPower">>,
     <<"#", "SoftnessStrategist">>, <<"#", "BoundariesAreSoftness">>}

\* tags a list may hold: two primary ones, a secondary one, a primary one
\* without its "#", and a primary one in another case
Tags ==
    {<<"#", "SoftMelanin">>, <<"#", "SoftnessIsPower">>, <<"#", "SoftHabits">>,
     <<"S", "oftMelanin">>, <<"#", "softmelanin">>}

startsWithHash(tag) == tag[1] = "#"

\* hashtags.filter(tag => primarySet.has(tag)).length
primaryCount(hashtags) == Len(SelectSeq(hashtags, LAMBDA tag : tag \in PRIMARY_HASHTAGS))

\* validateHashtags: the primary-count comparison
TooFewPrimaryStrict(n) == n < 3
TooFewPrimary(n) == n < 2

validateHashtags(hashtags) ==
    LET errs == (IF Len(hashtags) < 3
                   THEN <<[rule |-> "count is below minimum", tag |-> <<>>]>> ELSE <<>>)
                \o (IF Len(hashtags) > 5
                      THEN <<[rule |-> "count exceeds maximum", tag |-> <<>>]>> ELSE <<>>)
                \o (IF TooFewPrimary(primaryCount(hashtags))
                      THEN <<[rule |-> "primary brand hashtags", tag |-> <<>>]>> ELSE <<>>)
                \o [i \in 1..Len(SelectSeq(hashtags, LAMBDA tag : ~startsWithHash(tag))) |->
                      [rule |-> "must start with #",
                       tag |-> SelectSeq(hashtags, LAMBDA tag : ~startsWithHash(tag))[i]]]
    IN  [isValid |-> Len(errs) = 0, errors |-> errs]

\* validateArtifact: the nine validators, in the order they are called
Checks ==
    <<"wordCount", "whitespace", "soft", "tripleS", "cta", "hashtag", "seo",
      "brandVoice", "visual">>

\* allErrors.push(...result.errors), nine times
RECURSIVE allErrors(_, _)
allErrors(results, i) ==
    IF i > Len(Checks) THEN <<>> ELSE results[Checks[i]] \o allErrors(results, i + 1)

Passed(results, check) == results[check] = <<>>

\* qa.brandVoicePass
brandVoicePassIgnoringCta(results) == Passed(results, "brandVoice")
brandVoicePass(results) == Passed(results, "brandVoice") /\ Passed(results, "cta")

\* validateArtifact, from the error lists of the nine validators: the QA
\* object and the FullValidationResult
FullValidationResult(results) ==
    [isValid |-> Len(allErrors(results, 1)) = 0,
     qa |-> [authenticityPass |-> Passed(results, "brandVoice"),
             brandVoicePass |-> brandVoicePass(results),
             culturalSensitivityPass |-> TRUE,
             businessRelevancePass |-> Passed(results, "soft") /\ Passed(results, "tripleS"),
             errors |-> allErrors(results, 1)]]

\* validateArtifact reads artifact.tripleS.stop / stay / share in the Triple-S
\* check and artifact.tripleS.share.cta for the CTA check: on an artifact
\* that lacks them the check throws a TypeError
ThrowingChecks == {"tripleS", "cta"}

IndexOf(check) == CHOOSE i \in 1..Len(Checks) : Checks[i] = check

\* the calls made to the validators: the arguments they are given
WordCountCalls ==
    [fn : {"validateWordCount"}, lead : 0..1, words : 0..MaxWords, gap : 1..MaxGap,
     trail : 0..1, platform : DOMAIN PLATFORM_CONFIGS]
HashtagCalls ==
    [fn : {"validateHashtags"}, hashtags : UNION {[1..n -> Tags] : n \in 0..MaxTags}]
ArtifactCalls ==
    [fn : {"validateArtifact"},
     results : {r \in [Range(Checks) -> {<<>>, <<"error">>}] : TRUE},
     throws : {"none"} \cup ThrowingChecks]

\* validateWordCount(content, platform) is called and returns
ValidateWordCount ==
    /\ vpc = "called"
    /\ vcall.fn = "validateWordCount"
    /\ vresult' = validateWordCount(ContentOf(vcall.lead, vcall.words, vcall.gap, vcall.trail),
                                    vcall.platform)
    /\ vpc' = "done"
    /\ UNCHANGED vcall

\* validateHashtags(hashtags) is called and returns
ValidateHashtags ==
    /\ vpc = "called"
    /\ vcall.fn = "validateHashtags"
    /\ vresult' = validateHashtags(vcall.hashtags)
    /\ vpc' = "done"
    /\ UNCHANGED vcall

\* validateArtifact(artifact) is called and returns, or throws in the check
\* that reads what the artifact lacks
ValidateArtifact ==
    /\ vpc = "called"
    /\ vcall.fn = "validateArtifact"
    /\ vresult' = IF vcall.throws = "none"
                    THEN [returned |-> TRUE, checksRun |-> Len(Checks),
                          value |-> FullValidationResult(vcall.results)]
                    ELSE [returned |-> FALSE, checksRun |-> IndexOf(vcall.throws) - 1,
                          value |-> Null]
    /\ vpc' = "done"
    /\ UNCHANGED vcall

(***************************************************************************)
(* ContentGenerator                                                        *)
(***************************************************************************)

\* constructor: config.maxRewriteAttempts ?? 2
DefaultMaxRewriteAttempts == 2

\* Parseable payloads the provider can return, named by what the validators
\* make of them.  "malformed" parses and normalizes but lacks tripleS.share,
\* so validateArtifact throws a TypeError on artifact.tripleS.share.cta.
Contents == {"good", "short", "untagged", "malformed"}

\* Texts the provider can return: JSON payloads, or something JSON.parse rejects.
Payloads == Contents \cup {"not json"}

\* Errors llm.generate can throw.
ProviderErrors == {"rate limit", "network"}

\* parseJSON: JSON.parse of the cleaned response; throws on non-JSON.
parseJSON(response) ==
    IF response \in Contents
        THEN [ok |-> TRUE, value |-> response]
        ELSE [ok |-> FALSE, value |-> "Unexpected token"]

\* QA block normalizeArtifact supplies when the model sent none.
DefaultQA == [culturalSensitivityPass |-> FALSE, errors |-> <<>>]

\* normalizeArtifact: a fresh ContentArtifact object for this attempt
\* (createdAt distinguishes the attempts).
normalizeArtifactUndated(parsed, attempt) ==
    [content |-> parsed, createdAt |-> 1, qa |-> DefaultQA]
normalizeArtifact(parsed, attempt) ==
    [content |-> parsed, createdAt |-> attempt, qa |-> DefaultQA]

\* The error lists the nine validators produce for a payload.
NoFindings == [c \in Range(Checks) |-> <<>>]
Findings(content) ==
    CASE content = "short" ->
           [NoFindings EXCEPT !["wordCount"] = <<"Word count is below minimum">>]
      [] content = "untagged" ->
           [NoFindings EXCEPT !["hashtag"] =
               <<"Must have 3-5 hashtags", "Must include at least 2 primary hashtags">>]
      [] OTHER -> NoFindings

\* The flat error list the nine validators produce for a payload.
ValidatorErrors(content) == allErrors(Findings(content), 1)

\* validateArtifact throws (TypeError) on an artifact whose tripleS lacks share.
ValidateThrows(a) == a.content = "malformed"

\* validateArtifact: isValid iff the error list is empty; qa carries the list.
validateArtifact(a) == FullValidationResult(Findings(a.content))

\* while (attempts <= this.maxRewriteAttempts)
LoopConditionOffByOne(a, m) == a <= m + 1
LoopCondition(a, m) == a <= m

\* temperature: attempts === 1 ? 0.7 : 0.5   (in tenths)
TemperatureFlat(a) == 7
Temperature(a) == IF a = 1 THEN 7 ELSE 5

\* the arguments of buildGenerationPrompt that depend on the attempt
PromptFor(a, errs) ==
    [isRewrite |-> a > 1,
     previousErrors |-> IF a > 1 THEN errs ELSE <<>>,
     temperature |-> Temperature(a)]

\* catch (error) { lastErrors = [error.message] }
FeedbackKeepAll(old, msg) == old \o <<msg>>
CatchFeedback(old, msg) == <<msg>>

InitGen ==
    /\ gpc = "idle"
    /\ maxRewriteAttempts \in 0..MaxBudget
    /\ attempts = 0
    /\ lastErrors = <<>>
    /\ artifact = Null
    /\ validation = Null
    /\ prompts = <<>>
    /\ attemptLog = <<>>
    /\ genResult = Null

\* generateArtifact is entered: the four locals are initialised.
GenEnter ==
    /\ gpc = "idle"
    /\ gpc' = "test"
    /\ attempts' = 0
    /\ lastErrors' = <<>>
    /\ artifact' = Null
    /\ validation' = Null
    /\ UNCHANGED <<maxRewriteAttempts, prompts, attemptLog, genResult>>

\* Loop test true: attempts++, the prompt is built and llm.generate is called.
GenCallProvider ==
    /\ gpc = "test"
    /\ LoopCondition(attempts, maxRewriteAttempts)
    /\ attempts' = attempts + 1
    /\ prompts' = Append(prompts, PromptFor(attempts + 1, lastErrors))
    /\ gpc' = "awaiting"
    /\ UNCHANGED <<maxRewriteAttempts, lastErrors, artifact, validation, attemptLog, genResult>>

\* history: one finished attempt, what became of it and the feedback it left
Attempt(outcome, feedback) == [outcome |-> outcome, feedback |-> feedback]

\* llm.generate throws: the catch block records the message.
GenProviderThrows(msg) ==
    /\ gpc = "awaiting"
    /\ lastErrors' = CatchFeedback(lastErrors, msg)
    /\ attemptLog' = Append(attemptLog, Attempt("provider error", <<msg>>))
    /\ gpc' = "test"
    /\ UNCHANGED <<maxRewriteAttempts, attempts, artifact, validation, prompts, genResult>>

\* if (validation.isValid)
AcceptNever(val) == FALSE
Accept(val) == val.isValid

\* llm.generate returns a text: parse, normalize, validate, then return or loop.
GenProviderReturns(text) ==
    /\ gpc = "awaiting"
    /\ LET parsed == parseJSON(text)
           norm == normalizeArtifact(parsed.value, attempts)
           val == validateArtifact(norm)
       IN  IF ~parsed.ok
             THEN \* JSON.parse threw before artifact was assigned
                  /\ lastErrors' = CatchFeedback(lastErrors, parsed.value)
                  /\ attemptLog' = Append(attemptLog, Attempt("parse error", <<parsed.value>>))
                  /\ gpc' = "test"
                  /\ UNCHANGED <<artifact, validation, genResult>>
           ELSE IF ValidateThrows(norm)
             THEN \* artifact was assigned, validateArtifact threw
                  /\ artifact' = norm
                  /\ lastErrors' = CatchFeedback(lastErrors, "Cannot read properties of undefined")
                  /\ attemptLog' = Append(attemptLog,
                                          Attempt("validator threw", <<"Cannot read properties of undefined">>))
                  /\ gpc' = "test"
                  /\ UNCHANGED <<validation, genResult>>
           ELSE IF Accept(val)
             THEN \* artifact.qa = validation.qa; return
                  /\ artifact' = [norm EXCEPT !.qa = val.qa]
                  /\ validation' = val
                  /\ genResult' = [artifact |-> [norm EXCEPT !.qa = val.qa],
                                   attempts |-> attempts, validation |-> val]
                  /\ attemptLog' = Append(attemptLog, Attempt("valid", <<>>))
                  /\ gpc' = "returned"
                  /\ UNCHANGED lastErrors
             ELSE \* lastErrors = validation.qa.errors
                  /\ artifact' = norm
                  /\ validation' = val
                  /\ lastErrors' = val.qa.errors
                  /\ attemptLog' = Append(attemptLog,
                                          Attempt(IF val.isValid THEN "valid" ELSE "invalid", val.qa.errors))
                  /\ gpc' = "test"
                  /\ UNCHANGED genResult
    /\ UNCHANGED <<maxRewriteAttempts, attempts, prompts>>

\* after the loop: if (artifact && validation)
ReturnsOnlyValid(a, v) == a # Null /\ v # Null /\ v.isValid
HasArtifact(a, v) == a # Null /\ v # Null

\* Loop test false: return the retained artifact with the retained validation,
\* or throw with lastErrors in the message.
GenExhausted ==
    /\ gpc = "test"
    /\ ~LoopCondition(attempts, maxRewriteAttempts)
    /\ IF HasArtifact(artifact, validation)
         THEN /\ artifact' = [artifact EXCEPT !.qa = validation.qa]
              /\ genResult' = [artifact |-> [artifact EXCEPT !.qa = validation.qa],
                               attempts |-> attempts, validation |-> validation]
              /\ gpc' = "returned"
         ELSE /\ genResult' = [thrown |-> TRUE, attempts |-> attempts, errors |-> lastErrors]
              /\ gpc' = "thrown"
              /\ UNCHANGED artifact
    /\ UNCHANGED <<maxRewriteAttempts, attempts, lastErrors, validation, prompts, attemptLog>>

(***************************************************************************)
(* ContentGenerator.generate: one generateArtifact call per pair           *)
(***************************************************************************)

\* SegmentSchema / PlatformSchema members a request is built from
SegmentNames == <<"overextended_professional", "healing_high_achiever", "creative_reclaimer">>
PlatformNames == <<"linkedin_founder", "substack", "linkedin_company">>

\* GenerationRequestSchema: at least one segment and one platform
Requests ==
    {[segments |-> SubSeq(SegmentNames, 1, n), platforms |-> SubSeq(PlatformNames, 1, m)] :
        n \in 1..MaxSegments, m \in 1..MaxPlatforms}

\* for (segment of request.segments) for (platform of request.platforms):
\* the pair the loops reach after n pairs are finished
PairAt(req, n) ==
    [segment |-> req.segments[(n \div Len(req.platforms)) + 1],
     platform |-> req.platforms[(n % Len(req.platforms)) + 1]]

PairCount(req) == Len(req.segments) * Len(req.platforms)

\* success: errors.length === 0
SuccessAlways(errs) == TRUE
Success(errs) == Len(errs) = 0

BatchQuiet ==
    /\ bpc = "idle"
    /\ request = Null
    /\ cursor = 0
    /\ artifacts = <<>>
    /\ errors = <<>>
    /\ batchResponse = Null
    /\ calls = <<>>

\* generate(request) is entered
BatchEnter(req) ==
    /\ bpc = "idle"
    /\ gpc = "idle"
    /\ request' = req
    /\ artifacts' = <<>>
    /\ errors' = <<>>
    /\ cursor' = 0
    /\ bpc' = "loop"
    /\ UNCHANGED <<batchResponse, calls>>
    /\ UNCHANGED genVars

\* the loops reach the next pair: generateArtifact is called for it
BatchCall ==
    /\ bpc = "loop"
    /\ cursor < PairCount(request)
    /\ GenEnter
    /\ bpc' = "calling"
    /\ UNCHANGED <<request, cursor, artifacts, errors, batchResponse, calls>>

\* the entry generate pushes on errors for a pair
ErrorEntry(pair, result) ==
    IF "thrown" \in DOMAIN result
      THEN [pair |-> pair, thrown |-> TRUE, detail |-> result.errors]
      ELSE [pair |-> pair, thrown |-> FALSE, detail |-> result.validation.qa.errors]

\* generateArtifact has returned or thrown: the result is pushed, the loops go on
BatchCollect ==
    /\ bpc = "calling"
    /\ gpc \in {"returned", "thrown"}
    /\ LET pair == PairAt(request, cursor)
       IN  /\ IF gpc = "returned"
                THEN /\ artifacts' = Append(artifacts, genResult.artifact)
                     /\ errors' = IF ~genResult.validation.isValid
                                    THEN Append(errors, ErrorEntry(pair, genResult))
                                    ELSE errors
                ELSE /\ errors' = Append(errors, ErrorEntry(pair, genResult))
                     /\ UNCHANGED artifacts
           /\ calls' = Append(calls, [pair |-> pair, ended |-> gpc,
                                      valid |-> IF gpc = "returned"
                                                  THEN genResult.validation.isValid
                                                  ELSE FALSE,
                                      attempts |-> genResult.attempts,
                                      provider |-> Len(prompts)])
    /\ cursor' = cursor + 1
    /\ bpc' = "loop"
    /\ gpc' = "idle"
    /\ attempts' = 0
    /\ lastErrors' = <<>>
    /\ artifact' = Null
    /\ validation' = Null
    /\ prompts' = <<>>
    /\ attemptLog' = <<>>
    /\ genResult' = Null
    /\ UNCHANGED <<maxRewriteAttempts, request, batchResponse>>

\* both loops are done: the GenerationResponse is returned
BatchReturn ==
    /\ bpc = "loop"
    /\ cursor = PairCount(request)
    /\ batchResponse' = [success |-> Success(errors), artifacts |-> artifacts, errors |-> errors]
    /\ bpc' = "returned"
    /\ UNCHANGED <<request, cursor, artifacts, errors, calls>>
    /\ UNCHANGED genVars

(***************************************************************************)
(* Scheduled posts: the store                                              *)
(***************************************************************************)

\* ScheduledPostStatusSchema
Statuses == {"pending", "queued", "posting", "published", "failed", "cancelled"}

\* ScheduledPostSchema defaults for rows created without these columns
DefaultRetryCount == 0
DefaultMaxRetries == 3

\* SchedulerService constructor defaults
DefaultMaxConcurrentPosts == 3
\* retryDelayMs = 300000, in minutes
RetryDelay == 5

PostIds == 1..MaxPosts
\* owners of processPost invocations: poll cycles, then one executePostNow call
Owners == 1..(MaxCycles + 1)
ExecOwner == MaxCycles + 1
CycleOwners == 1..MaxCycles

\* null for time-valued and string-valued columns
NoTime == -1
None == "none"

\* a row that was deleted (ids are never reused)
Deleted == [deleted |-> TRUE]

Exists(p) == posts[p] # Null /\ posts[p] # Deleted

\* The artifact and account rows present in the store (platform of each).
ArtifactPlatform == [a1 |-> "linkedin_founder", a2 |-> "substack", a3 |-> "linkedin_company"]
Accounts ==
    [s1 |-> [platform |-> "linkedin", isActive |-> TRUE],
     s3 |-> [platform |-> "linkedin", isActive |-> FALSE]]

\* ids a request may name (a0 / s0 are not in the store)
RequestArtifactIds == {"a0", "a1", "a2"}
RequestAccountIds == {"s0", "s1", "s3"}
\* artifacts the requests of SpecCycle name
CycleArtifactIds == {"a1", "a3"}
\* instants a request may ask for
RequestTimes == {0, RetryDelay}
\* statuses a PATCH request may ask for
RequestStatuses == {"pending", "queued"}

\* POST: platformMap
platformMap == [linkedin |-> {"linkedin_founder", "linkedin_company"}, substack |-> {"substack"}]

Active(p) == Exists(p) /\ posts[p].status \in {"pending", "queued", "posting"}

(***************************************************************************)
(* Route handlers of /api/social/scheduled                                 *)
(***************************************************************************)

\* POST: the statuses the duplicate check looks for
DuplicateStatusesPendingOnly == {"pending"}
DuplicateStatuses == {"pending", "queued"}

\* POST: prisma.scheduledPost.findFirst for the duplicate check
existingSchedule(a, s) ==
    {q \in PostIds : /\ Exists(q)
                     /\ posts[q].artifactId = a
                     /\ posts[q].socialAccountId = s
                     /\ posts[q].status \in DuplicateStatuses}

\* POST: every precondition of the create passes
CreateAccepted(a, s) ==
    /\ a \in DOMAIN ArtifactPlatform
    /\ s \in DOMAIN Accounts
    /\ Accounts[s].isActive
    /\ ArtifactPlatform[a] \in platformMap[Accounts[s].platform]
    /\ existingSchedule(a, s) = {}

\* the row prisma.scheduledPost.create writes
NewPost(a, s, t) ==
    [artifactId |-> a, socialAccountId |-> s, scheduledFor |-> t,
     timezone |-> "America/New_York", status |-> "pending",
     publishedAt |-> NoTime, externalPostId |-> None, lastError |-> None,
     retryCount |-> DefaultRetryCount, maxRetries |-> DefaultMaxRetries, notes |-> None]

\* POST: the id the new row gets (the store's first free one)
NewId == CHOOSE q \in PostIds : posts[q] = Null /\ \A r \in PostIds : posts[r] = Null => q <= r

\* POST: the response, by the first check that fails
CreateResponse(a, s) ==
    LET req == [op |-> "POST", artifactId |-> a, socialAccountId |-> s]
    IN  IF a \notin DOMAIN ArtifactPlatform
          THEN [request |-> req, code |-> 404, error |-> "Artifact not found"]
        ELSE IF s \notin DOMAIN Accounts
          THEN [request |-> req, code |-> 404, error |-> "Social account not found"]
        ELSE IF ~Accounts[s].isActive
          THEN [request |-> req, code |-> 400, error |-> "Social account is not active"]
        ELSE IF ArtifactPlatform[a] \notin platformMap[Accounts[s].platform]
          THEN [request |-> req, code |-> 400, error |-> "Artifact platform is not compatible with account platform"]
        ELSE IF existingSchedule(a, s) # {}
          THEN [request |-> req, code |-> 400,
                error |-> "This artifact is already scheduled for this account",
                existingScheduleId |-> CHOOSE q \in existingSchedule(a, s) : TRUE]
        ELSE [request |-> req, code |-> 200, error |-> None, scheduledPost |-> NewId]

\* POST /api/social/scheduled
Create(a, s, t) ==
    /\ \E p \in PostIds : posts[p] = Null
    /\ IF CreateAccepted(a, s)
         THEN posts' = [posts EXCEPT ![NewId] = NewPost(a, s, t)]
         ELSE UNCHANGED posts
    /\ UNCHANGED <<history, isRunning, intervalId, timers, maxConcurrentPosts, now, tasks, userOps>>

\* bodies UpdateScheduledPostSchema accepts (None / NoTime = field absent)
PatchBodies ==
    [scheduledFor : RequestTimes \cup {NoTime}, timezone : {None},
     status : RequestStatuses \cup {None}, notes : {None}]

\* PATCH bodies that ask for a status only, any status of the schema
StatusPatchBodies ==
    [scheduledFor : {NoTime}, timezone : {None}, status : Statuses, notes : {None}]

\* PATCH: "Can only reschedule pending posts"
PatchRejected(status, body) == status # "pending" /\ body.scheduledFor # NoTime

\* PATCH: updateData applied to the row
ApplyPatch(row, body) ==
    [row EXCEPT
       !.scheduledFor = IF body.scheduledFor # NoTime THEN body.scheduledFor ELSE @,
       !.timezone = IF body.timezone # None THEN body.timezone ELSE @,
       !.status = IF body.status # None THEN body.status ELSE @,
       !.notes = IF body.notes # None THEN body.notes ELSE @]

\* PATCH: the response
PatchResponse(p, body) ==
    LET req == [op |-> "PATCH", id |-> p, body |-> body]
    IN  IF ~Exists(p)
          THEN [request |-> req, code |-> 404, error |-> "Scheduled post not found"]
        ELSE IF PatchRejected(posts[p].status, body)
          THEN [request |-> req, code |-> 400, error |-> "Can only reschedule pending posts"]
        ELSE [request |-> req, code |-> 200, error |-> None]

\* PATCH /api/social/scheduled?id=p
Patch(p, body) ==
    /\ userOps' = userOps + 1
    /\ IF Exists(p) /\ ~PatchRejected(posts[p].status, body)
         THEN posts' = [posts EXCEPT ![p] = ApplyPatch(posts[p], body)]
         ELSE UNCHANGED posts
    /\ UNCHANGED <<history, isRunning, intervalId, timers, maxConcurrentPosts, now, tasks>>

\* DELETE: "Cannot delete published posts"
DeleteRejectsNothing(status) == FALSE
DeleteRejects(status) == status = "published"

\* DELETE: statuses whose row is removed
DeleteRemovesAlsoPosting(status) == status \in {"pending", "failed", "posting"}
DeleteRemoves(status) == status \in {"pending", "failed"}

\* DELETE: the response (existing is the status findUnique read)
DeleteResponse(p) ==
    LET req == [op |-> "DELETE", id |-> p,
                existing |-> IF Exists(p) THEN posts[p].status ELSE None]
    IN  IF ~Exists(p)
          THEN [request |-> req, code |-> 404, error |-> "Scheduled post not found"]
        ELSE IF DeleteRejects(posts[p].status)
          THEN [request |-> req, code |-> 400, error |-> "Cannot delete published posts"]
        ELSE [request |-> req, code |-> 200, error |-> None]

\* DELETE /api/social/scheduled?id=p
Delete(p) ==
    /\ userOps' = userOps + 1
    /\ IF Exists(p) /\ ~DeleteRejects(posts[p].status)
         THEN /\ posts' = [posts EXCEPT ![p] =
                              IF DeleteRemoves(posts[p].status)
                                THEN Deleted
                                ELSE [posts[p] EXCEPT !.status = "cancelled"]]
         ELSE UNCHANGED posts
    /\ UNCHANGED <<history, isRunning, intervalId, timers, maxConcurrentPosts, now, tasks>>

(***************************************************************************)
(* SchedulerService                                                        *)
(***************************************************************************)

\* handlePostFailure: if (retryCount < maxRetries)
RetryAllowedOffByOne(retryCount, maxRetries) == retryCount + 1 < maxRetries
RetryAllowed(retryCount, maxRetries) == retryCount < maxRetries

\* handlePostFailure: nextRetry = new Date(Date.now() + this.config.retryDelayMs)
NextRetryNoDelay(t) == t
NextRetry(t) == t + RetryDelay

\* The scheduledPost object a processPost invocation works from: the row as it
\* was when findMany / findUnique read it.  pc is the await it is suspended at.
NewTask(row) ==
    [pc |-> "setPosting", retryCount |-> row.retryCount, maxRetries |-> row.maxRetries,
     error |-> None]

\* a processPost invocation that has settled: resolved ("done") or rejected
Settled(how) == [pc |-> how, retryCount |-> 0, maxRetries |-> 0, error |-> None]

Running(o, p) == tasks[o][p] # Null /\ tasks[o][p].pc \notin {"done", "rejected"}
InFlight(p) == \E o \in Owners : Running(o, p)
RunningCount == Cardinality({op \in Owners \X PostIds : Running(op[1], op[2])})

NoTasks == [p \in PostIds |-> Null]

\* processPost hands the failure to handlePostFailure, which issues its update
EnterFailureUncaught(task, msg) == Settled("rejected")
EnterFailure(task, msg) == [task EXCEPT !.pc = "handleFailure", !.error = msg]

\* processPost of owner o for post p settles.  A cycle's Promise.all settles with
\* its last processPost and processScheduledPosts returns; executePostNow goes
\* on to read the row again.
Settle(o, p, how) ==
    LET after == [tasks[o] EXCEPT ![p] = Settled(how)]
    IN  IF o \in CycleOwners /\ \A q \in PostIds : after[q] = Null \/ after[q].pc \in {"done", "rejected"}
          THEN [tasks EXCEPT ![o] = NoTasks]
          ELSE [tasks EXCEPT ![o] = after]

\* findMany: where status = "pending" and scheduledFor <= now
DueAnyTime(p) == Exists(p) /\ posts[p].status = "pending"
Due(p) == Exists(p) /\ posts[p].status = "pending" /\ posts[p].scheduledFor <= now

\* findMany: orderBy scheduledFor asc, take maxConcurrentPosts
\* (rows with equal scheduledFor come in either order)
Claimable(S) ==
    LET due == {p \in PostIds : Due(p)}
    IN  /\ S \subseteq due
        /\ Cardinality(S) = IF Cardinality(due) < maxConcurrentPosts
                              THEN Cardinality(due) ELSE maxConcurrentPosts
        /\ \A p \in S, q \in due \ S : posts[p].scheduledFor <= posts[q].scheduledFor

FreeCycle == {o \in CycleOwners : tasks[o] = NoTasks}

\* processScheduledPosts: findMany reads the due rows; if there are none it
\* returns, otherwise processPost is started for each of them.
processScheduledPosts ==
    \E S \in SUBSET PostIds :
      /\ Claimable(S)
      /\ IF S = {}
           THEN UNCHANGED tasks
           ELSE /\ FreeCycle # {}
                /\ RunningCount + Cardinality(S) <= MaxInFlight
                /\ LET o == CHOOSE c \in FreeCycle : \A d \in FreeCycle : c <= d
                   IN  tasks' = [tasks EXCEPT ![o] =
                                   [p \in PostIds |-> IF p \in S THEN NewTask(posts[p]) ELSE Null]]

\* start(): if (this.isRunning) return
AlreadyRunningNever == FALSE
AlreadyRunning == isRunning

\* start()
Start ==
    /\ IF AlreadyRunning
         THEN UNCHANGED <<isRunning, intervalId, timers, tasks>>
         ELSE /\ isRunning' = TRUE
              /\ processScheduledPosts
              /\ intervalId' = TRUE
              /\ timers' = timers + 1
    /\ UNCHANGED <<posts, history, maxConcurrentPosts, now, userOps>>

\* stop()
Stop ==
    /\ IF ~isRunning
         THEN UNCHANGED <<isRunning, intervalId, timers>>
         ELSE /\ isRunning' = FALSE
              /\ intervalId' = FALSE
              /\ timers' = IF intervalId THEN timers - 1 ELSE timers
    /\ UNCHANGED <<posts, history, maxConcurrentPosts, now, tasks, userOps>>

\* the setInterval callback fires
TimerFire ==
    /\ timers > 0
    /\ processScheduledPosts
    /\ UNCHANGED <<posts, history, isRunning, intervalId, timers, maxConcurrentPosts, now, userOps>>

\* processPost: update { status: "posting" } lands, then the adapter is called
TaskSetPosting(o, p) ==
    /\ tasks[o][p] # Null
    /\ tasks[o][p].pc = "setPosting"
    /\ IF Exists(p)
         THEN /\ posts' = [posts EXCEPT ![p].status = "posting"]
              /\ tasks' = [tasks EXCEPT ![o][p].pc = "adapter"]
         ELSE /\ tasks' = [tasks EXCEPT ![o][p] = EnterFailure(@, "Record to update not found")]
              /\ UNCHANGED posts
    /\ UNCHANGED <<history, isRunning, intervalId, timers, maxConcurrentPosts, now, userOps>>

\* what the code between the status write and the adapter's result can do: the
\* adapter reports success or failure, or something throws (JSON.parse of an
\* artifact column, an unsupported account platform, the adapter itself)
AdapterOutcomes == {"success", "failure", "throws"}

\* processPost: the adapter call settles
TaskAdapter(o, p, outcome) ==
    /\ tasks[o][p] # Null
    /\ tasks[o][p].pc = "adapter"
    /\ tasks' = [tasks EXCEPT ![o][p] =
                   CASE outcome = "success" -> [@ EXCEPT !.pc = "markPublished"]
                     [] outcome = "failure" -> EnterFailure(@, "Publish rejected")
                     [] OTHER -> EnterFailure(@, "Access token not set")]
    /\ UNCHANGED <<posts, history, isRunning, intervalId, timers, maxConcurrentPosts, now, userOps>>

\* processPost: update { status: "published", ... } lands
TaskMarkPublished(o, p) ==
    /\ tasks[o][p] # Null
    /\ tasks[o][p].pc = "markPublished"
    /\ IF Exists(p)
         THEN /\ posts' = [posts EXCEPT ![p] =
                              [@ EXCEPT !.status = "published", !.publishedAt = now,
                                        !.externalPostId = "urn:li:share", !.lastError = None]]
              /\ tasks' = [tasks EXCEPT ![o][p].pc = "history"]
         ELSE /\ tasks' = [tasks EXCEPT ![o][p] = EnterFailure(@, "Record to update not found")]
              /\ UNCHANGED posts
    /\ UNCHANGED <<history, isRunning, intervalId, timers, maxConcurrentPosts, now, userOps>>

\* processPost: postHistory.create settles (created, or the store rejects it)
TaskHistory(o, p, created) ==
    /\ tasks[o][p] # Null
    /\ tasks[o][p].pc = "history"
    /\ IF created
         THEN /\ history[p] < MaxHistory
              /\ history' = [history EXCEPT ![p] = @ + 1]
              /\ tasks' = Settle(o, p, "done")
         ELSE /\ tasks' = [tasks EXCEPT ![o][p] = EnterFailure(@, "History write failed")]
              /\ UNCHANGED history
    /\ UNCHANGED <<posts, isRunning, intervalId, timers, maxConcurrentPosts, now, userOps>>

\* the row handlePostFailure writes
FailureWrite(row, task) ==
    IF RetryAllowed(task.retryCount, task.maxRetries)
      THEN [row EXCEPT !.status = "pending", !.scheduledFor = NextRetry(now),
                       !.retryCount = task.retryCount + 1, !.lastError = task.error]
      ELSE [row EXCEPT !.status = "failed", !.lastError = task.error]

\* handlePostFailure: its update lands (or throws because the row is gone)
TaskHandleFailure(o, p) ==
    /\ tasks[o][p] # Null
    /\ tasks[o][p].pc = "handleFailure"
    /\ IF Exists(p)
         THEN /\ posts' = [posts EXCEPT ![p] = FailureWrite(@, tasks[o][p])]
              /\ tasks' = Settle(o, p, "done")
         ELSE /\ tasks' = Settle(o, p, "rejected")
              /\ UNCHANGED posts
    /\ UNCHANGED <<history, isRunning, intervalId, timers, maxConcurrentPosts, now, userOps>>

\* executePostNow: statuses it refuses to dispatch
ExecRefusesAlsoFailed(status) == status \in {"published", "failed"}
ExecRefuses(status) == status = "published"

\* executePostNow(p): findUnique returns; processPost is started unless refused
ExecuteNow(p) ==
    /\ tasks[ExecOwner] = NoTasks
    /\ IF ~Exists(p) \/ ExecRefuses(posts[p].status)
         THEN UNCHANGED tasks
         ELSE /\ RunningCount < MaxInFlight
              /\ tasks' = [tasks EXCEPT ![ExecOwner][p] = NewTask(posts[p])]
    /\ UNCHANGED <<posts, history, isRunning, intervalId, timers, maxConcurrentPosts, now, userOps>>

\* executePostNow: processPost has settled; the row is read again and reported
ExecReport(p) ==
    /\ tasks[ExecOwner][p] # Null
    /\ ~Running(ExecOwner, p)
    /\ tasks' = [tasks EXCEPT ![ExecOwner] = NoTasks]
    /\ UNCHANGED <<posts, history, isRunning, intervalId, timers, maxConcurrentPosts, now, userOps>>

\* executePostNow: the PostResult of an unknown id and of a refused post
NotFound == [success |-> FALSE, externalPostId |-> None, error |-> "Scheduled post not found"]
Refused == [success |-> FALSE, externalPostId |-> None, error |-> "Post already published"]

\* executePostNow: the PostResult built from the row read back after processPost
\* (updated is null when the row is gone)
PostResultOf(p) ==
    IF Exists(p)
      THEN [success |-> posts[p].status = "published",
            externalPostId |-> posts[p].externalPostId,
            error |-> posts[p].lastError]
      ELSE [success |-> FALSE, externalPostId |-> None, error |-> None]

\* what the call executePostNow(p) hands back in the step that starts it, and
\* what it hands back in the step that ends it: a PostResult, or the
\* rejection of processPost, which executePostNow does not catch
ExecCallOutcome(p) ==
    IF ~Exists(p) THEN [id |-> p, how |-> "returned", result |-> NotFound]
    ELSE IF ExecRefuses(posts[p].status) THEN [id |-> p, how |-> "returned", result |-> Refused]
    ELSE [id |-> p, how |-> "dispatching", result |-> Null]
ExecReportOutcome(p) ==
    IF tasks[ExecOwner][p].pc = "rejected"
      THEN [id |-> p, how |-> "threw", result |-> Null]
      ELSE [id |-> p, how |-> "returned", result |-> PostResultOf(p)]

\* the clock advances; it is observed once per retry delay
Tick ==
    /\ now + RetryDelay <= MaxTime
    /\ now' = now + RetryDelay
    /\ UNCHANGED <<posts, history, isRunning, intervalId, timers, maxConcurrentPosts, tasks, userOps>>

(***************************************************************************)
(* Specifications                                                          *)
(***************************************************************************)

InitSched ==
    /\ posts = [p \in PostIds |-> Null]
    /\ history = [p \in PostIds |-> 0]
    /\ isRunning = FALSE
    /\ intervalId = FALSE
    /\ timers = 0
    /\ maxConcurrentPosts = DefaultMaxConcurrentPosts
    /\ now = 0
    /\ tasks = [o \in Owners |-> NoTasks]
    /\ userOps = 0
    /\ dispatched = 0
    /\ fails = [p \in PostIds |-> 0]
    /\ clean = [p \in PostIds |-> TRUE]
    /\ execResult = Null
    /\ lastResponse = Null
    /\ lastDelay = [p \in PostIds |-> NoTime]

\* no validator is called on its own
ValidQuiet ==
    /\ vpc = "idle"
    /\ vcall = Null
    /\ vresult = Null

\* the generator is not in use
GenQuiet ==
    /\ gpc = "idle"
    /\ maxRewriteAttempts = DefaultMaxRewriteAttempts
    /\ attempts = 0
    /\ lastErrors = <<>>
    /\ artifact = Null
    /\ validation = Null
    /\ prompts = <<>>
    /\ attemptLog = <<>>
    /\ genResult = Null

\* one validator has just been called with some argument
InitValidating ==
    /\ vpc = "called"
    /\ vcall \in WordCountCalls \cup HashtagCalls \cup ArtifactCalls
    /\ vresult = Null
    /\ InitSched
    /\ GenQuiet
    /\ BatchQuiet

\* a generator about to be called, beside a scheduler that is never started
InitGenerating == InitGen /\ InitSched /\ BatchQuiet /\ ValidQuiet

\* a generator about to serve one generate(request), with a small budget
InitBatch ==
    /\ InitGen
    /\ maxRewriteAttempts <= MaxBatchBudget
    /\ InitSched
    /\ BatchQuiet
    /\ ValidQuiet

\* a scheduler configured with some maxConcurrentPosts and an empty store
InitCycle ==
    /\ posts = [p \in PostIds |-> Null]
    /\ history = [p \in PostIds |-> 0]
    /\ isRunning = FALSE
    /\ intervalId = FALSE
    /\ timers = 0
    /\ maxConcurrentPosts \in {1, DefaultMaxConcurrentPosts}
    /\ now = 0
    /\ tasks = [o \in Owners |-> NoTasks]
    /\ userOps = 0
    /\ dispatched = 0
    /\ fails = [p \in PostIds |-> 0]
    /\ clean = [p \in PostIds |-> TRUE]
    /\ execResult = Null
    /\ lastResponse = Null
    /\ lastDelay = [p \in PostIds |-> NoTime]
    /\ GenQuiet
    /\ BatchQuiet
    /\ ValidQuiet

\* a fresh scheduler and an empty store, beside a generator that is never called
InitScheduling == InitSched /\ GenQuiet /\ BatchQuiet /\ ValidQuiet

\* history variables: a failed dispatch of p completes in this step
FailureCompletes(p) ==
    \E o \in Owners : /\ tasks[o][p] # Null
                      /\ tasks[o][p].pc = "handleFailure"
                      /\ tasks'[o][p] # tasks[o][p]

\* history variables: a dispatch of p begins in this step while another is in flight
OverlapBegins(p) ==
    \E o \in Owners : /\ tasks[o][p] = Null
                      /\ tasks'[o][p] # Null
                      /\ InFlight(p)

Bump(n) == IF n < FailCap THEN n + 1 ELSE n

\* history variables: a failed dispatch of p puts it back to pending in this step
Requeues(p) ==
    /\ FailureCompletes(p)
    /\ posts'[p] # posts[p]
    /\ posts'[p].status = "pending"

\* the delay a re-queue asks for: the new scheduledFor, counted from now
RequeueDelay(p) == posts'[p].scheduledFor - now

RecordHistory ==
    /\ fails' = [p \in PostIds |-> IF FailureCompletes(p) THEN Bump(fails[p]) ELSE fails[p]]
    /\ clean' = [p \in PostIds |-> clean[p] /\ ~OverlapBegins(p)]
    /\ lastDelay' = [p \in PostIds |-> IF Requeues(p) THEN RequeueDelay(p) ELSE lastDelay[p]]

\* history variables: the processPost invocations that begin in this step
Begun == {op \in Owners \X PostIds : tasks[op[1]][op[2]] = Null /\ tasks'[op[1]][op[2]] # Null}

CountDispatches ==
    /\ dispatched' = dispatched + Cardinality(Begun)
    /\ dispatched' <= MaxDispatches

\* what a step of the scheduler leaves alone, and the dispatches it counts
SchedRest ==
    /\ CountDispatches
    /\ UNCHANGED <<fails, clean, execResult, lastResponse, lastDelay>>
    /\ UNCHANGED genVars
    /\ UNCHANGED batchVars
    /\ UNCHANGED validVars
RetryRest ==
    /\ RecordHistory
    /\ UNCHANGED <<dispatched, execResult, lastResponse>>
    /\ UNCHANGED genVars
    /\ UNCHANGED batchVars
    /\ UNCHANGED validVars
GenRest == UNCHANGED schedVars /\ UNCHANGED batchVars /\ UNCHANGED validVars
BatchRest == UNCHANGED schedVars /\ UNCHANGED validVars
ExecRest(outcome) ==
    /\ execResult' = outcome
    /\ UNCHANGED <<dispatched, fails, clean, lastResponse, lastDelay>>
    /\ UNCHANGED genVars
    /\ UNCHANGED batchVars
    /\ UNCHANGED validVars
ExecQuiet ==
    /\ UNCHANGED <<dispatched, fails, clean, execResult, lastResponse, lastDelay>>
    /\ UNCHANGED genVars
    /\ UNCHANGED batchVars
    /\ UNCHANGED validVars
StoreRest(response) ==
    /\ lastResponse' = response
    /\ UNCHANGED <<dispatched, fails, clean, execResult, lastDelay>>
    /\ UNCHANGED genVars
    /\ UNCHANGED batchVars
    /\ UNCHANGED validVars

\* the steps of one generateArtifact call
ValidRest == UNCHANGED schedVars /\ UNCHANGED genVars /\ UNCHANGED batchVars

\* a validator called on its own runs to its return
ValidStep ==
    \/ ValidateWordCount /\ ValidRest
    \/ ValidateHashtags /\ ValidRest
    \/ ValidateArtifact /\ ValidRest

SpecValid == InitValidating /\ [][ValidStep]_vars

GenStep ==
    \/ GenEnter /\ GenRest
    \/ GenCallProvider /\ GenRest
    \/ \E msg \in ProviderErrors : GenProviderThrows(msg) /\ GenRest
    \/ \E text \in Payloads : GenProviderReturns(text) /\ GenRest
    \/ GenExhausted /\ GenRest

\* the steps of one generate(request) call and of the generateArtifact calls it makes
BatchStep ==
    \/ \E req \in Requests : BatchEnter(req) /\ BatchRest
    \/ BatchCall /\ BatchRest
    \/ GenCallProvider /\ bpc = "calling" /\ GenRest
    \/ \E msg \in ProviderErrors : GenProviderThrows(msg) /\ bpc = "calling" /\ GenRest
    \/ \E text \in Payloads : GenProviderReturns(text) /\ bpc = "calling" /\ GenRest
    \/ GenExhausted /\ bpc = "calling" /\ GenRest
    \/ BatchCollect /\ BatchRest
    \/ BatchReturn /\ BatchRest

\* the requests, the timer and the continuations of the dispatches in flight
SchedStep ==
    \/ \E a \in RequestArtifactIds, s \in RequestAccountIds, t \in RequestTimes :
            Create(a, s, t) /\ SchedRest
    \/ \E p \in PostIds, body \in PatchBodies :
            Patch(p, body) /\ userOps < MaxUserOps /\ SchedRest
    \/ \E p \in PostIds : Delete(p) /\ userOps < MaxUserOps /\ SchedRest
    \/ Start /\ SchedRest
    \/ Stop /\ SchedRest
    \/ TimerFire /\ SchedRest
    \/ \E o \in Owners, p \in PostIds : TaskSetPosting(o, p) /\ SchedRest
    \/ \E o \in Owners, p \in PostIds, outcome \in AdapterOutcomes :
            TaskAdapter(o, p, outcome) /\ SchedRest
    \/ \E o \in Owners, p \in PostIds : TaskMarkPublished(o, p) /\ SchedRest
    \/ \E o \in Owners, p \in PostIds, created \in BOOLEAN :
            TaskHistory(o, p, created) /\ SchedRest
    \/ \E o \in Owners, p \in PostIds : TaskHandleFailure(o, p) /\ SchedRest
    \/ \E p \in PostIds : ExecuteNow(p) /\ SchedRest
    \/ \E p \in PostIds : ExecReport(p) /\ SchedRest

\* the poll cycles: posts for two artifacts, DELETE requests, the clock moves
\* (the adapter reports success or failure, the history write succeeds)
CycleStep ==
    \/ \E a \in CycleArtifactIds, t \in RequestTimes : Create(a, "s1", t) /\ SchedRest
    \/ \E p \in PostIds : Delete(p) /\ userOps < MaxUserOps /\ SchedRest
    \/ Start /\ SchedRest
    \/ Stop /\ SchedRest
    \/ TimerFire /\ SchedRest
    \/ \E o \in Owners, p \in PostIds : TaskSetPosting(o, p) /\ SchedRest
    \/ \E o \in Owners, p \in PostIds, outcome \in {"success", "failure"} :
            TaskAdapter(o, p, outcome) /\ SchedRest
    \/ \E o \in Owners, p \in PostIds : TaskMarkPublished(o, p) /\ SchedRest
    \/ \E o \in Owners, p \in PostIds : TaskHistory(o, p, TRUE) /\ SchedRest
    \/ \E o \in Owners, p \in PostIds : TaskHandleFailure(o, p) /\ SchedRest
    \/ Tick /\ SchedRest

\* the scheduler left to itself: posts are scheduled, start() is called, and
\* from then on only the timer, the dispatches and the clock move
PollStep ==
    \/ \E a \in CycleArtifactIds, t \in RequestTimes :
            Create(a, "s1", t) /\ ~isRunning /\ RetryRest
    \/ Start /\ RetryRest
    \/ TimerFire /\ RetryRest
    \/ \E o \in Owners, p \in PostIds : TaskSetPosting(o, p) /\ RetryRest
    \/ \E o \in Owners, p \in PostIds, outcome \in {"success", "failure"} :
            TaskAdapter(o, p, outcome) /\ RetryRest
    \/ \E o \in Owners, p \in PostIds : TaskMarkPublished(o, p) /\ RetryRest
    \/ \E o \in Owners, p \in PostIds : TaskHistory(o, p, TRUE) /\ RetryRest
    \/ \E o \in Owners, p \in PostIds : TaskHandleFailure(o, p) /\ RetryRest
    \/ Tick /\ RetryRest

\* the scheduler on its own: one post, no PATCH and no DELETE, the clock moves
RetryStep ==
    \/ \E t \in RequestTimes :
            Create("a1", "s1", t) /\ (\A q \in PostIds : posts[q] = Null) /\ RetryRest
    \/ Start /\ RetryRest
    \/ Stop /\ RetryRest
    \/ TimerFire /\ RetryRest
    \/ \E o \in Owners, p \in PostIds : TaskSetPosting(o, p) /\ RetryRest
    \/ \E o \in Owners, p \in PostIds, outcome \in AdapterOutcomes :
            TaskAdapter(o, p, outcome) /\ RetryRest
    \/ \E o \in Owners, p \in PostIds : TaskMarkPublished(o, p) /\ RetryRest
    \/ \E o \in Owners, p \in PostIds, created \in BOOLEAN :
            TaskHistory(o, p, created) /\ RetryRest
    \/ \E o \in Owners, p \in PostIds : TaskHandleFailure(o, p) /\ RetryRest
    \/ \E p \in PostIds : ExecuteNow(p) /\ RetryRest
    \/ \E p \in PostIds : ExecReport(p) /\ RetryRest
    \/ Tick /\ RetryRest

\* one generateArtifact call, for every budget and every provider behaviour
SpecGen == InitGenerating /\ [][GenStep]_vars

\* the same, where the runtime resumes the call whenever the provider settles
FairSpecGen == SpecGen /\ WF_vars(GenStep)

\* one generate(request) call, for every request shape and provider behaviour
SpecBatch == InitBatch /\ [][BatchStep]_vars

\* the scheduler, the store and the route handlers, in every interleaving
\* within one reading of the clock
SpecSched == InitScheduling /\ [][SchedStep]_vars

\* the poll cycles of a scheduler with a small or the default cap, over posts
\* for two artifacts that may be deleted, as time passes
SpecCycle == InitCycle /\ [][CycleStep]_vars

\* the route handlers alone, on a store no scheduler works on
StoreStep ==
    \/ \E a \in RequestArtifactIds, s \in RequestAccountIds, t \in RequestTimes :
            Create(a, s, t) /\ StoreRest(CreateResponse(a, s))
    \/ \E p \in PostIds, body \in StatusPatchBodies :
            Patch(p, body) /\ userOps < MaxStoreOps /\ StoreRest(PatchResponse(p, body))
    \/ \E p \in PostIds :
            Delete(p) /\ userOps < MaxStoreOps /\ StoreRest(DeleteResponse(p))

SpecStore == InitScheduling /\ [][StoreStep]_vars

\* executePostNow against one scheduled post that a DELETE and the poll cycles
\* may touch as well
ExecStep ==
    \/ \E t \in RequestTimes :
            Create("a1", "s1", t) /\ (\A q \in PostIds : posts[q] = Null) /\ ExecQuiet
    \/ \E p \in PostIds : Delete(p) /\ userOps < MaxUserOps /\ ExecQuiet
    \/ Start /\ ExecQuiet
    \/ TimerFire /\ ExecQuiet
    \/ \E o \in Owners, p \in PostIds : TaskSetPosting(o, p) /\ ExecQuiet
    \/ \E o \in Owners, p \in PostIds, outcome \in AdapterOutcomes :
            TaskAdapter(o, p, outcome) /\ ExecQuiet
    \/ \E o \in Owners, p \in PostIds : TaskMarkPublished(o, p) /\ ExecQuiet
    \/ \E o \in Owners, p \in PostIds, created \in BOOLEAN :
            TaskHistory(o, p, created) /\ ExecQuiet
    \/ \E o \in Owners, p \in PostIds : TaskHandleFailure(o, p) /\ ExecQuiet
    \/ \E p \in PostIds : ExecuteNow(p) /\ ExecRest(ExecCallOutcome(p))
    \/ \E p \in PostIds : ExecReport(p) /\ ExecRest(ExecReportOutcome(p))

SpecExec == InitScheduling /\ [][ExecStep]_vars

\* a started scheduler that nobody stops, with no request after start()
SpecPoll == InitCycle /\ [][PollStep]_vars

\* the scheduler and executePostNow dispatching one post nobody edits or
\* deletes, as time passes
SpecRetry == InitScheduling /\ [][RetryStep]_vars

(***************************************************************************)
(* Properties of generateArtifact                                          *)
(***************************************************************************)

GenDone == gpc \in {"returned", "thrown"}

\* the outcomes of the finished attempts, in order
Outcomes == [i \in 1..Len(attemptLog) |-> attemptLog[i].outcome]

RECURSIVE Flatten(_)
Flatten(log) ==
    IF log = <<>> THEN <<>> ELSE Head(log).feedback \o Flatten(Tail(log))

\* C1: generateArtifact calls the provider at most maxRewriteAttempts + 1
\* times and then terminates; every attempt, whether the provider threw, the
\* parse failed or validation failed, is counted against that one budget.
C1_AttemptBudget ==
    /\ [](/\ Len(prompts) = attempts
          /\ attempts <= maxRewriteAttempts + 1
          /\ Len(attemptLog) = (IF gpc = "awaiting" THEN attempts - 1 ELSE attempts))
    /\ <>GenDone

\* three attempts of three different kinds used up a budget of two rewrites
C1_Witness ==
    /\ GenDone
    /\ maxRewriteAttempts = 2
    /\ Len(prompts) = 3
    /\ Outcomes = <<"provider error", "parse error", "invalid">>

\* C4: when every attempt yields a parseable artifact that fails validation,
\* generateArtifact returns (it does not throw) after exactly
\* maxRewriteAttempts + 1 attempts, with validation.isValid false and a
\* non-empty artifact.qa.errors.
C4_AllInvalidReturns ==
    (GenDone /\ Range(Outcomes) = {"invalid"}) =>
        /\ gpc = "returned"
        /\ genResult.attempts = maxRewriteAttempts + 1
        /\ Len(prompts) = maxRewriteAttempts + 1
        /\ ~genResult.validation.isValid
        /\ genResult.artifact.qa.errors # <<>>
        /\ genResult.artifact.qa = genResult.validation.qa

C4_Witness ==
    /\ gpc = "returned"
    /\ maxRewriteAttempts = 2
    /\ Outcomes = <<"invalid", "invalid", "invalid">>
    /\ genResult.artifact.qa.errors = <<"Word count is below minimum">>

NoArtifactEver == Range(Outcomes) \subseteq {"provider error", "parse error"}

C6_FirstValidReturns ==
    /\ \A i \in 1..Len(attemptLog) :
          attemptLog[i].outcome = "valid" =>
              /\ i = Len(attemptLog)
              /\ gpc = "returned"
              /\ genResult.attempts = i
              /\ Len(prompts) = i
              /\ genResult.validation.isValid
              /\ genResult.artifact.qa = genResult.validation.qa
              /\ genResult.artifact.createdAt = i
    /\ (gpc = "returned" /\ ~genResult.validation.isValid) =>
          /\ genResult.attempts = maxRewriteAttempts + 1
          /\ "valid" \notin Range(Outcomes)
    /\ (gpc = "returned" /\ genResult.validation.isValid) =>
          Outcomes[Len(attemptLog)] = "valid"

\* the second of three permitted attempts validated
C6_Witness ==
    /\ gpc = "returned"
    /\ maxRewriteAttempts = 2
    /\ Outcomes = <<"invalid", "valid">>
    /\ genResult.attempts = 2
    /\ Len(prompts) = 2

(***************************************************************************)
(* Properties of the scheduler and the scheduled-post routes               *)
(***************************************************************************)

Min(a, b) == IF a < b THEN a ELSE b

\* C2: handlePostFailure with retryCount < maxRetries leaves the post pending
\* with retryCount + 1, scheduledFor = the time of the failure + the retry
\* delay and lastError set; otherwise it leaves the post failed with lastError
\* set and retryCount and scheduledFor as they were.  retryCount and maxRetries
\* are the ones the dispatch read, which are the stored ones whenever the
\* dispatches of the post did not overlap.
C2_FailureTransition ==
    [][\A o \in Owners, p \in PostIds :
          (TaskHandleFailure(o, p) /\ Exists(p)) =>
              LET t == tasks[o][p]
                  row == posts[p]
                  after == posts'[p]
              IN  /\ clean[p] => (t.retryCount = row.retryCount /\ t.maxRetries = row.maxRetries)
                  /\ t.error # None
                  /\ after.lastError = t.error
                  /\ IF t.retryCount < t.maxRetries
                       THEN /\ after.status = "pending"
                            /\ after.retryCount = t.retryCount + 1
                            /\ after.scheduledFor = now + RetryDelay
                       ELSE /\ after.status = "failed"
                            /\ after.retryCount = row.retryCount
                            /\ after.scheduledFor = row.scheduledFor]_vars

\* a second failure, one retry delay after the first, scheduled one more retry
C2_Witness ==
    \E p \in PostIds :
        /\ Exists(p)
        /\ clean[p]
        /\ fails[p] = 2
        /\ now = RetryDelay
        /\ posts[p].status = "pending"
        /\ posts[p].retryCount = 2
        /\ posts[p].scheduledFor = now + RetryDelay
        /\ posts[p].lastError = "Access token not set"

\* a post whose dispatches so far all failed, one after the other, at rest
AtRestAfterFailures(p, n) ==
    /\ Exists(p)
    /\ clean[p]
    /\ ~InFlight(p)
    /\ fails[p] = n

\* C3 as stated: with maxRetries = 3, after the third consecutive failed
\* dispatch the post is failed.
C3_FailedAfterThird ==
    \A p \in PostIds :
        AtRestAfterFailures(p, DefaultMaxRetries) => posts[p].status = "failed"

\* C3: with maxRetries = 3 a post stays pending through its first three
\* consecutive failed dispatches, retryCount going 0, 1, 2, 3, and is failed,
\* with retryCount still 3, from the fourth failure on.
C3_FailedAfterFourth ==
    \A p \in PostIds, n \in 0..FailCap :
        AtRestAfterFailures(p, n) =>
            /\ posts[p].maxRetries = DefaultMaxRetries
            /\ posts[p].retryCount = Min(n, DefaultMaxRetries)
            /\ posts[p].status # "published" =>
                  posts[p].status = (IF n <= DefaultMaxRetries THEN "pending" ELSE "failed")

\* three failures left the post pending, the fourth failed it
C3_Witness ==
    \E p \in PostIds :
        /\ AtRestAfterFailures(p, DefaultMaxRetries + 1)
        /\ posts[p].status = "failed"
        /\ posts[p].retryCount = DefaultMaxRetries

\* C7 as stated: once a post is published no operation changes it.
C7_PublishedImmutable ==
    [][\A p \in PostIds :
          (Exists(p) /\ posts[p].status = "published") => posts'[p] = posts[p]]_vars

SamePair(p, q) ==
    /\ posts[p].artifactId = posts[q].artifactId
    /\ posts[p].socialAccountId = posts[q].socialAccountId

\* C8 as stated: at most one post in pending, queued or posting exists for an
\* (artifactId, socialAccountId) pair.
C8_OneActivePerPair ==
    \A p, q \in PostIds : (p # q /\ Active(p) /\ Active(q)) => ~SamePair(p, q)

\* the status of post p changes in this step, or the row is removed
LeavesPosting(p) ==
    /\ Exists(p)
    /\ posts[p].status = "posting"
    /\ (posts'[p] = Deleted \/ posts'[p].status # "posting")

C10_NoDoubleDispatch ==
    \A p \in PostIds, o1, o2 \in CycleOwners :
        (o1 # o2 /\ Running(o1, p) /\ tasks[o2][p] # Null) =>
            tasks[o2][p].pc \notin {"markPublished", "history"}

\* the processPost invocation of owner o for post p is past a successful
\* adapter call and suspended at the given await
AfterSuccess(o, p, at) == tasks[o][p] # Null /\ tasks[o][p].pc = at

\* C11 as stated: after the adapter reports success the dispatch writes
\* status published, publishedAt, externalPostId and a cleared lastError,
\* leaving retryCount and scheduledFor alone, and then appends exactly one
\* post-history record and changes the post no further.
C11_SuccessEffects ==
    [][\A o \in Owners, p \in PostIds :
          /\ (AfterSuccess(o, p, "markPublished") /\ Exists(p) /\ tasks'[o][p] # tasks[o][p]) =>
                /\ posts'[p].status = "published"
                /\ posts'[p].publishedAt = now
                /\ posts'[p].externalPostId # None
                /\ posts'[p].lastError = None
                /\ posts'[p].retryCount = posts[p].retryCount
                /\ posts'[p].scheduledFor = posts[p].scheduledFor
                /\ history'[p] = history[p]
          /\ (AfterSuccess(o, p, "history") /\ tasks'[o][p] # tasks[o][p]) =>
                /\ history'[p] = history[p] + 1
                /\ posts'[p] = posts[p]
                /\ ~(tasks'[o][p] # Null /\ tasks'[o][p].pc = "handleFailure")]_vars

\* the last finished attempt whose outcome is in S (0 when there is none)
LastWith(S) ==
    LET at == {i \in 1..Len(attemptLog) : attemptLog[i].outcome \in S}
    IN  IF at = {} THEN 0 ELSE CHOOSE i \in at : \A j \in at : j <= i

\* the loop ran out of attempts (the last attempt did not validate)
Exhausted == GenDone /\ Outcomes[Len(attemptLog)] # "valid"

\* C12 as stated: on exhaustion the artifact returned is the one the last
\* attempt produced, with the validation of that attempt, and an artifact is
\* returned only if the last attempt produced one.
C12_ReturnsLastAttempt ==
    (Exhausted /\ gpc = "returned") =>
        /\ Outcomes[genResult.attempts] = "invalid"
        /\ genResult.artifact.createdAt = genResult.attempts
        /\ genResult.validation.qa.errors = attemptLog[genResult.attempts].feedback

\* C12: on exhaustion generateArtifact returns exactly when some attempt got
\* as far as a completed validation; it returns the artifact of the latest
\* attempt that normalized one, whichever attempt that was, with the
\* validation of the latest attempt that completed one, which can be an
\* earlier attempt than the artifact's; otherwise it throws.
C12_ReturnsLatestProduced ==
    Exhausted =>
        /\ (gpc = "returned") = (LastWith({"invalid"}) # 0)
        /\ gpc = "returned" =>
              /\ genResult.attempts = maxRewriteAttempts + 1
              /\ genResult.artifact.createdAt = LastWith({"invalid", "validator threw"})
              /\ genResult.validation.qa.errors = attemptLog[LastWith({"invalid"})].feedback
              /\ ~genResult.validation.isValid
              /\ genResult.artifact.qa = genResult.validation.qa

\* the artifact of attempt 1 is returned after attempts 2 and 3 produced none
C12_Witness ==
    /\ gpc = "returned"
    /\ Outcomes = <<"invalid", "provider error", "parse error">>
    /\ genResult.attempts = 3
    /\ genResult.artifact.createdAt = 1

\* C13: the prompt of attempt 1 is no rewrite, carries no feedback and goes
\* out at temperature 0.7; the prompt of every attempt k >= 2 is a rewrite
\* that carries exactly the feedback attempt k - 1 left (its validator errors,
\* or the one message that was caught) and goes out at temperature 0.5.
C13_RewriteCarriesPreviousFeedback ==
    \A k \in 1..Len(prompts) :
        IF k = 1
          THEN /\ ~prompts[k].isRewrite
               /\ prompts[k].previousErrors = <<>>
               /\ prompts[k].temperature = 7
          ELSE /\ prompts[k].isRewrite
               /\ prompts[k].previousErrors = attemptLog[k - 1].feedback
               /\ prompts[k].previousErrors # <<>>
               /\ prompts[k].temperature = 5

\* the second prompt carried two validator errors, the third a provider error
C13_Witness ==
    /\ Len(prompts) = 3
    /\ Outcomes[1] = "invalid"
    /\ prompts[2].previousErrors =
          <<"Must have 3-5 hashtags", "Must include at least 2 primary hashtags">>
    /\ Outcomes[2] = "provider error"
    /\ prompts[3].previousErrors = <<"network">>
    /\ prompts[3].temperature = 5

(***************************************************************************)
(* Properties of generate                                                  *)
(***************************************************************************)

\* the finished generateArtifact calls of the batch that satisfy a condition
CallsThat(ended, valid) ==
    {n \in 1..Len(calls) : calls[n].ended \in ended /\ calls[n].valid \in valid}

\* C14: generate calls generateArtifact exactly once for each
\* (segment, platform) pair, each call with the whole budget of
\* maxRewriteAttempts + 1 attempts to itself; a call that throws adds one
\* entry to errors and the remaining pairs still run, so the artifacts
\* returned plus the calls that threw number |segments| x |platforms|, and
\* success is true iff every call returned a valid artifact.
C14_BatchRunsEveryPair ==
    /\ Len(calls) = cursor
    /\ bpc # "idle" =>
          /\ cursor <= PairCount(request)
          /\ \A n \in 1..Len(calls) :
                /\ calls[n].pair = PairAt(request, n - 1)
                /\ calls[n].provider = calls[n].attempts
                /\ calls[n].attempts <= maxRewriteAttempts + 1
                /\ ~calls[n].valid => calls[n].attempts = maxRewriteAttempts + 1
          /\ Len(artifacts) = Cardinality(CallsThat({"returned"}, BOOLEAN))
          /\ Len(errors) = Cardinality(CallsThat({"returned", "thrown"}, {FALSE}))
          /\ \A n \in CallsThat({"thrown"}, {FALSE}) :
                \E e \in 1..Len(errors) : errors[e].pair = calls[n].pair /\ errors[e].thrown
    /\ bpc = "calling" => Len(prompts) <= maxRewriteAttempts + 1
    /\ bpc = "returned" =>
          /\ \A i \in 1..Len(request.segments), j \in 1..Len(request.platforms) :
                Cardinality({n \in 1..Len(calls) :
                                calls[n].pair = [segment |-> request.segments[i],
                                                 platform |-> request.platforms[j]]}) = 1
          /\ Len(batchResponse.artifacts) + Cardinality(CallsThat({"thrown"}, {FALSE}))
                = Len(request.segments) * Len(request.platforms)
          /\ batchResponse.success = (\A n \in 1..Len(calls) : calls[n].valid)
          /\ batchResponse.errors = errors

\* four pairs: the first call threw, the others went on and returned
C14_Witness ==
    /\ bpc = "returned"
    /\ Len(request.segments) = 2
    /\ Len(request.platforms) = 2
    /\ calls[1].ended = "thrown"
    /\ calls[2].valid
    /\ calls[3].ended = "returned" /\ ~calls[3].valid
    /\ calls[4].valid
    /\ Len(batchResponse.artifacts) = 3
    /\ Len(batchResponse.errors) = 2
    /\ ~batchResponse.success

\* the awaits of processPost that can throw into its catch block
DispatchSteps == {"setPosting", "adapter", "markPublished", "history"}

\* the row handlePostFailure leaves for a dispatch that read retryCount rc and
\* maxRetries mr and failed with message msg
FailedRow(row, rc, mr, msg) ==
    IF rc < mr
      THEN [row EXCEPT !.status = "pending", !.scheduledFor = now + RetryDelay,
                       !.retryCount = rc + 1, !.lastError = msg]
      ELSE [row EXCEPT !.status = "failed", !.lastError = msg]

\* C15: whatever throws during the dispatch of a post is caught and ends in
\* handlePostFailure with the exception's message, which writes the same
\* transition as for a failure the adapter reports (pending with
\* retryCount + 1 while retries remain, else failed, lastError = the message);
\* the step leaves the scheduler's timer and every other dispatch in flight
\* as they were, so the other posts of the cycle go on to their own status.
C15_ExceptionsAreFailures ==
    [][\A o \in Owners, p \in PostIds :
          (tasks[o][p] # Null /\ Running(o, p) /\ tasks'[o][p] # tasks[o][p]) =>
              LET t == tasks[o][p]
                  failing == tasks'[o][p] # Null /\ tasks'[o][p].pc = "handleFailure"
              IN  /\ t.pc \in DispatchSteps =>
                        /\ IF tasks'[o][p] = Null
                             THEN t.pc = "history" /\ history'[p] = history[p] + 1
                             ELSE tasks'[o][p].pc # "rejected"
                        /\ failing => /\ tasks'[o][p].error # None
                                      /\ tasks'[o][p].retryCount = t.retryCount
                                      /\ tasks'[o][p].maxRetries = t.maxRetries
                                      /\ t.pc # "markPublished" => posts' = posts
                  /\ (t.pc = "handleFailure" /\ Exists(p)) =>
                        /\ posts'[p] = FailedRow(posts[p], t.retryCount, t.maxRetries, t.error)
                        /\ ~Running(o, p)'
                  /\ isRunning' = isRunning
                  /\ intervalId' = intervalId
                  /\ \A o2 \in Owners, q \in PostIds :
                        (<<o2, q>> # <<o, p>> /\ Running(o2, q)) =>
                            tasks'[o2][q] = tasks[o2][q]]_vars

\* one post of a poll cycle took the failure transition for an exception
\* while the dispatch of the other post of that cycle is still going on
C15_Witness ==
    \E o \in CycleOwners, p, q \in PostIds :
        /\ p # q
        /\ tasks[o][p] # Null
        /\ tasks[o][p].pc = "done"
        /\ Exists(p)
        /\ posts[p].status = "pending"
        /\ posts[p].lastError = "Access token not set"
        /\ Running(o, q)

\* a processScheduledPosts invocation starts dispatches in this step
CycleStarts(o) == tasks[o] = NoTasks /\ tasks'[o] # NoTasks

\* the posts it starts them for
ClaimedBy(o) == {p \in PostIds : tasks'[o][p] # Null}

\* the posts that are pending with scheduledFor <= now
DueNow == {p \in PostIds : Exists(p) /\ posts[p].status = "pending" /\ posts[p].scheduledFor <= now}

\* a poll cycle claims only due posts, the earliest ones, as many as are due up
\* to maxConcurrentPosts; no cycle starts a dispatch when nothing is due
ClaimsEarliestDue ==
    /\ \A o \in CycleOwners :
          CycleStarts(o) =>
              /\ ClaimedBy(o) \subseteq DueNow
              /\ Cardinality(ClaimedBy(o)) <= maxConcurrentPosts
              /\ Cardinality(ClaimedBy(o)) = Min(Cardinality(DueNow), maxConcurrentPosts)
              /\ \A p \in ClaimedBy(o), q \in DueNow \ ClaimedBy(o) :
                    posts[p].scheduledFor <= posts[q].scheduledFor
              /\ posts' = posts
    /\ DueNow = {} => \A o \in CycleOwners : ~CycleStarts(o)

\* a processPost of cycle o rejects in this step
RejectsIn(o) ==
    \E p \in PostIds : /\ Running(o, p)
                       /\ \/ tasks'[o] = NoTasks /\ ~Exists(p)
                          \/ tasks'[o][p] # Null /\ tasks'[o][p].pc = "rejected"

\* await Promise.all(...) settles in this step: the last processPost of the
\* cycle resolves, or one of them rejects
PromiseAllSettles(o) ==
    /\ tasks[o] # NoTasks
    /\ tasks'[o] = NoTasks \/ RejectsIn(o)

C17_SettlesWithinRetryBudget ==
    \A p \in PostIds :
        (Exists(p) /\ ~InFlight(p) /\ fails[p] >= DefaultMaxRetries + 1) =>
            posts[p].status \in {"published", "failed"}

\* ---------------------------------------------------------------------
\* C18: executePostNow(id) on a published post returns success = false with
\* "Post already published", starts no dispatch (so calls no adapter) and
\* leaves the post as it is; on an unknown id it returns success = false and
\* changes nothing; on a post in any other status it starts the dispatch a
\* poll cycle would start from the row it read, and what it returns after
\* that dispatch has success = true exactly when the row read back is
\* published, and error = the row's lastError.
ExecCalls(p) ==
    execResult' # execResult /\ execResult'.id = p /\ tasks[ExecOwner][p] = Null
ExecReports(p) ==
    execResult' # execResult /\ execResult'.id = p /\ tasks[ExecOwner][p] # Null

C18_ExecutePostNow ==
    [][\A p \in PostIds :
          /\ ExecCalls(p) =>
               IF ~Exists(p)
                 THEN /\ execResult'.how = "returned"
                      /\ execResult'.result.success = FALSE
                      /\ UNCHANGED <<posts, history, tasks>>
               ELSE IF posts[p].status = "published"
                 THEN /\ execResult'.how = "returned"
                      /\ execResult'.result.success = FALSE
                      /\ execResult'.result.error = "Post already published"
                      /\ UNCHANGED <<posts, history, tasks>>
               ELSE /\ execResult'.how = "dispatching"
                    /\ tasks'[ExecOwner][p] = NewTask(posts[p])
                    /\ UNCHANGED <<posts, history>>
          /\ ExecReports(p) =>
               /\ ~Running(ExecOwner, p)
               /\ (execResult'.how = "returned" /\ execResult'.result.success)
                     <=> (Exists(p) /\ posts[p].status = "published")
               /\ (execResult'.how = "returned" /\ Exists(p)) =>
                     execResult'.result.error = posts[p].lastError
               /\ UNCHANGED <<posts, history>>]_vars

\* a dispatch started by executePostNow on a post that was not published has
\* published it, and the call has returned success = true
C18_Witness ==
    /\ execResult # Null
    /\ execResult.how = "returned"
    /\ execResult.result.success
    /\ Exists(execResult.id)
    /\ posts[execResult.id].status = "published"
    /\ history[execResult.id] > 0

\* ---------------------------------------------------------------------
\* C19: DELETE of a scheduled post is rejected on a published post, which is
\* left as it is; it removes the record of a pending or failed post; on a
\* post in any other status (queued, posting, cancelled) it sets the status
\* to cancelled and keeps the record, so a DELETE of a cancelled post leaves
\* it cancelled.
Served(op) ==
    /\ lastResponse' # Null
    /\ lastResponse'.request.op = op
    /\ (lastResponse' # lastResponse \/ posts' # posts)

OthersKept(p) == \A q \in PostIds \ {p} : posts'[q] = posts[q]

C19_DeleteByStatus ==
    [][\A p \in PostIds :
          (Served("DELETE") /\ lastResponse'.request.id = p /\ Exists(p)) =>
              /\ OthersKept(p)
              /\ UNCHANGED <<history, tasks>>
              /\ CASE posts[p].status = "published" ->
                        /\ lastResponse'.code = 400
                        /\ posts'[p] = posts[p]
                   [] posts[p].status \in {"pending", "failed"} ->
                        /\ lastResponse'.code = 200
                        /\ posts'[p] = Deleted
                   [] OTHER ->
                        /\ lastResponse'.code = 200
                        /\ posts'[p] = [posts[p] EXCEPT !.status = "cancelled"]
                        /\ posts[p].status = "cancelled" => posts'[p] = posts[p]]_vars

\* a DELETE has just been served on a post it found cancelled, and the
\* record is still there, cancelled
C19_Witness ==
    /\ lastResponse # Null
    /\ lastResponse.request.op = "DELETE"
    /\ lastResponse.request.existing = "cancelled"
    /\ lastResponse.code = 200
    /\ Exists(lastResponse.request.id)
    /\ posts[lastResponse.request.id].status = "cancelled"

\* ---------------------------------------------------------------------
\* C20: a create-schedule request whose artifact or account is missing, whose
\* account is inactive, whose artifact's platform is outside the account's
\* platform family, or for whose artifact and account a pending or queued
\* schedule already exists, creates no row and changes nothing, and in the
\* last case the error carries the id of such an existing schedule; every
\* row that is created starts pending.
ArtifactMissing(a) == a \notin DOMAIN ArtifactPlatform
AccountMissing(s) == s \notin DOMAIN Accounts
OutsideFamily(a, s) ==
    \/ Accounts[s].platform = "linkedin" /\ ArtifactPlatform[a] = "substack"
    \/ Accounts[s].platform = "substack" /\ ArtifactPlatform[a] # "substack"
AlreadyScheduled(a, s) ==
    {q \in PostIds : /\ Exists(q)
                     /\ posts[q].artifactId = a
                     /\ posts[q].socialAccountId = s
                     /\ posts[q].status \in {"pending", "queued"}}
FailsPrecondition(a, s) ==
    \/ ArtifactMissing(a)
    \/ AccountMissing(s)
    \/ ~Accounts[s].isActive
    \/ OutsideFamily(a, s)
    \/ AlreadyScheduled(a, s) # {}
OnlyAlreadyScheduled(a, s) ==
    /\ ~ArtifactMissing(a)
    /\ ~AccountMissing(s)
    /\ Accounts[s].isActive
    /\ ~OutsideFamily(a, s)
    /\ AlreadyScheduled(a, s) # {}

C20_RejectedCreateChangesNothing ==
    [][Served("POST") =>
          LET a == lastResponse'.request.artifactId
              s == lastResponse'.request.socialAccountId
          IN  /\ FailsPrecondition(a, s) =>
                    /\ lastResponse'.code \in {400, 404}
                    /\ UNCHANGED <<posts, history, tasks, isRunning, intervalId, timers, userOps>>
              /\ OnlyAlreadyScheduled(a, s) =>
                    lastResponse'.existingScheduleId \in AlreadyScheduled(a, s)
              /\ \A p \in PostIds :
                    posts'[p] # posts[p] =>
                        /\ posts[p] = Null
                        /\ posts'[p].status = "pending"
                        /\ posts'[p].artifactId = a
                        /\ posts'[p].socialAccountId = s
                        /\ lastResponse'.code = 200]_vars

\* a create request has just been refused because the artifact is already
\* scheduled for the account by a queued post, whose id the error carries
C20_Witness ==
    /\ lastResponse # Null
    /\ lastResponse.request.op = "POST"
    /\ lastResponse.code = 400
    /\ lastResponse.error = "This artifact is already scheduled for this account"
    /\ Exists(lastResponse.existingScheduleId)
    /\ posts[lastResponse.existingScheduleId].status = "queued"
    /\ Cardinality({p \in PostIds : Exists(p)}) = 1

\* ---------------------------------------------------------------------
\* C21: whatever start() and stop() calls are made, at most one poll timer
\* exists and isActive() is true exactly when it exists; start() on a
\* stopped scheduler runs one poll cycle at once and arms the interval,
\* start() on a running scheduler arms no second timer, stop() clears the
\* timer and starts nothing, and a poll cycle begins only in a start() of a
\* stopped scheduler or while a timer is armed.
isActive == isRunning

OneTimerIffActive ==
    /\ timers \in {0, 1}
    /\ isActive <=> timers = 1
    /\ intervalId <=> timers = 1

\* one call of processScheduledPosts has been made in this step
RanOneCycle ==
    \E S \in SUBSET PostIds :
        /\ Claimable(S)
        /\ IF S = {}
             THEN tasks' = tasks
             ELSE \E o \in CycleOwners :
                    /\ tasks[o] = NoTasks
                    /\ tasks' = [tasks EXCEPT ![o] =
                                    [p \in PostIds |-> IF p \in S THEN NewTask(posts[p]) ELSE Null]]

CycleBegins == \E o \in CycleOwners : tasks[o] = NoTasks /\ tasks'[o] # NoTasks

C21_StartStopLifecycle ==
    [][/\ OneTimerIffActive
       /\ OneTimerIffActive'
       /\ (~isActive /\ isActive') => (timers' = 1 /\ RanOneCycle)
       /\ (isActive /\ ~isActive') => (timers' = 0 /\ tasks' = tasks)
       /\ CycleBegins => (timers > 0 \/ (~isActive /\ isActive'))]_vars

\* the scheduler was started, began a poll cycle at once, and was stopped
\* while a dispatch of that cycle was still in flight: no timer is left
C21_Witness ==
    /\ ~isActive
    /\ timers = 0
    /\ ~intervalId
    /\ \E o \in CycleOwners, p \in PostIds : Running(o, p)

\* ---------------------------------------------------------------------
\* C22: automatic retries back off: every re-queue of a failing post asks
\* for a longer delay than the post's previous re-queue did.
C22_RetryDelayGrows ==
    [][\A p \in PostIds :
          (Requeues(p) /\ lastDelay[p] # NoTime) => RequeueDelay(p) > lastDelay[p]]_vars

(***************************************************************************)
(* Claims about the validators (SpecValid)                                 *)
(***************************************************************************)
Returned(fn) == vpc = "done" /\ vcall.fn = fn

\* ---------------------------------------------------------------------
\* C23: validateWordCount counts the non-empty whitespace-separated tokens
\* of the content and accepts the count exactly when it lies between the
\* platform's minWords and maxWords, both included: with bounds [150, 300],
\* 150 and 300 words pass, 149 words fail with the below-minimum message
\* only and 301 words fail with the exceeds-maximum message only.
C23_WordCountBounds ==
    Returned("validateWordCount") =>
        LET config == PLATFORM_CONFIGS[vcall.platform]
            n == vcall.words
            below == [rule |-> "is below minimum", count |-> n, limit |-> config.minWords]
            above == [rule |-> "exceeds maximum", count |-> n, limit |-> config.maxWords]
        IN  /\ vresult.isValid <=> (config.minWords <= n /\ n <= config.maxWords)
            /\ vresult.isValid <=> vresult.errors = <<>>
            /\ n < config.minWords => vresult.errors = <<below>>
            /\ n > config.maxWords => vresult.errors = <<above>>
            /\ (config.minWords = 150 /\ config.maxWords = 300) =>
                  /\ n \in {150, 300} => vresult.isValid
                  /\ n = 149 => vresult.errors = <<below>>
                  /\ n = 301 => vresult.errors = <<above>>

\* a LinkedIn content of 301 words, with blanks before the first word, two
\* blanks between words and a line break at the end, has been refused
C23_Witness ==
    /\ Returned("validateWordCount")
    /\ vcall.platform = "linkedin_founder"
    /\ vcall.words = 301
    /\ vcall.lead = 1 /\ vcall.gap = 2 /\ vcall.trail = 1
    /\ ~vresult.isValid
    /\ Len(vresult.errors) = 1

\* ---------------------------------------------------------------------
\* C24: validateHashtags accepts a list exactly when it has 3 to 5 tags, at
\* least 2 of them are members of the primary set and every tag starts with
\* "#"; each rule that is violated adds its own message whatever the other
\* rules say; a list of 3 tags with 1 primary tag fails the primary-count
\* rule only, and appending any primary tag to it makes it pass.
PrimaryAt(h) == {i \in 1..Len(h) : h[i] \in PRIMARY_HASHTAGS}
UnhashedAt(h) == {i \in 1..Len(h) : h[i][1] # "#"}
MessagesOf(errs, rule) == {i \in 1..Len(errs) : errs[i].rule = rule}

Failing(r) == {c \in Range(Checks) : r[c] # <<>>}

C26_ValidationOfReturnedArtifact ==
    gpc = "returned" =>
        /\ ~ValidateThrows(genResult.artifact)
        /\ genResult.validation = validateArtifact(genResult.artifact)
        /\ genResult.artifact.qa = genResult.validation.qa

\* C27: for each scheduled post at most one post-history record ever exists
\* (every successful publish of a post appends one).
C27_PublishedAtMostOnce ==
    \A p \in PostIds : history[p] <= 1

\* the processPost invocation of owner o for post p got success from the
\* adapter and has not settled yet
PublishedBy(o, p) ==
    /\ tasks[o][p] # Null
    /\ \/ tasks[o][p].pc \in {"markPublished", "history"}
       \/ tasks[o][p].pc = "handleFailure" /\ tasks[o][p].error = "History write failed"

\* C28: once the adapter has reported success, no later step of the same
\* dispatch writes the post in any status but published: the dispatch never
\* puts it back to pending and never marks it failed.
C28_PublishedStaysPublished ==
    [][\A o \in Owners, p \in PostIds :
          (PublishedBy(o, p) /\ tasks'[o][p] # tasks[o][p] /\ Exists(p) /\ posts'[p] # posts[p]) =>
              posts'[p].status = "published"]_vars

\* a processPost invocation of owner o for post p begins in this step
DispatchBegins(o, p) ==
    /\ tasks[o][p] = Null
    /\ tasks'[o][p] # Null
    /\ tasks'[o][p].pc = "setPosting"

\* C29: neither a poll cycle nor executePostNow begins a dispatch for a post
\* whose status is cancelled at that moment.
C29_CancelledNeverDispatched ==
    [][\A o \in Owners, p \in PostIds :
          (DispatchBegins(o, p) /\ Exists(p)) => posts[p].status # "cancelled"]_vars

\* C30: every scheduled post keeps 0 <= retryCount <= maxRetries, and no
\* step lowers the retryCount of a post.
C30_RetryCountBoundedMonotone ==
    [][\A p \in PostIds :
          (Exists(p) /\ posts'[p] # Null /\ posts'[p] # Deleted) =>
              /\ 0 <= posts'[p].retryCount
              /\ posts'[p].retryCount <= posts'[p].maxRetries
              /\ posts'[p].retryCount >= posts[p].retryCount]_vars

====
